---- MODULE Spec2Model ----
(***************************************************************************)
(* Model of src/freq_image_gen.py: generate_freq_image and its helper      *)
(* draw_wrapped_text.                                                      *)
(*                                                                         *)
(* A Python str is the sequence of its characters' code points, a list is  *)
(* a sequence, an optional argument is a record [some, val].  A font is a  *)
(* function from characters to advance widths; font.getbbox(text) is       *)
(* measured as the sum of the advances of the characters of text.          *)
(***************************************************************************)
EXTENDS Integers, Sequences, FiniteSets, TLC

VARIABLES
    \* ---- draw_wrapped_text, run on its own (SpecWrap) ----
    w_text,        \* text
    w_font,        \* font
    w_max,         \* max_width
    w_words,       \* words = text.split()
    w_i,           \* number of words the for loop has consumed
    w_lines,       \* lines
    w_cur,         \* current_line
    w_pc,          \* "idle" | "split" | "loop" | "done"
    \* ---- one call of generate_freq_image (Spec) ----
    frequency,           \* argument
    scene_name,          \* argument
    radio_station_name,  \* argument
    tags,                \* argument: [some, val], val a list of strings
    output_path,         \* argument: [some, val], val a path
    bg_exists,           \* os.path.exists(bg_image_path)
    width,               \* image.size[0] of the background
    tags_font,           \* the font the pills are measured with
    radio_station_font,  \* the font the radio station name is measured with
    pc,                  \* position in the function body
    error,               \* exception raised, or "none"
    header,              \* frequency_text drawn at the top
    radio_lines,         \* lines drawn by draw_wrapped_text
    line_num,            \* index into lines = [[0,1],[2,3],[4]]
    pill_idx,            \* running pill counter
    display_tag0,        \* two-pill row: first label as displayed
    display_tag1,        \* two-pill row: second label as displayed
    display_tag,         \* single-pill row: label as displayed
    iters,               \* truncating iterations of the current row's loop
    drawn,               \* draw_pill calls of the tag rows, in call order
    saved,               \* [some, val]: file written by image.save
    returned,            \* [some, val]: value returned
    \* ---- two parallel calls (SpecConc) ----
    c_args,        \* call -> its arguments
    c_pc,          \* call -> position
    c_image,       \* call -> [some, val]: the image on its canvas
    c_ret,         \* call -> [some, val]: value returned
    c_pos,         \* call -> pieces of its file written so far
    files          \* path -> [some, val]: the pieces the file holds

wrapVars == <<w_text, w_font, w_max, w_words, w_i, w_lines, w_cur, w_pc>>

inputVars == <<frequency, scene_name, radio_station_name, tags, output_path,
               bg_exists, width, tags_font, radio_station_font>>

genVars == <<inputVars, pc, error, header, radio_lines, line_num, pill_idx,
             display_tag0, display_tag1, display_tag, iters, drawn, saved, returned>>

concVars == <<c_args, c_pc, c_image, c_ret, c_pos, files>>

vars == <<wrapVars, genVars, concVars>>

-----------------------------------------------------------------------------
(* Bounds of the model *)

\* longest text handed to draw_wrapped_text
MaxTextLen == 5

\* longest tag handed to generate_freq_image
MaxTagLen == 5

\* number of pieces image.save writes a file in
FileChunks == 2

-----------------------------------------------------------------------------
(* Strings and fonts *)

\* the ASCII characters U+0020 to U+005F and U+0061 to U+007A, in order
AsciiSigns ==
    <<" ", "!", "\"", "#", "$", "%", "&", "'", "(", ")", "*", "+", ",", "-", ".", "/",
      "0", "1", "2", "3", "4", "5", "6", "7", "8", "9", ":", ";", "<", "=", ">", "?",
      "@", "A", "B", "C", "D", "E", "F", "G", "H", "I", "J", "K", "L", "M", "N", "O",
      "P", "Q", "R", "S", "T", "U", "V", "W", "X", "Y", "Z", "[", "\\", "]", "^", "_">>

AsciiSmall ==
    <<"a", "b", "c", "d", "e", "f", "g", "h", "i", "j", "k", "l", "m",
      "n", "o", "p", "q", "r", "s", "t", "u", "v", "w", "x", "y", "z">>

\* ord(ch) of one of these characters
Ord(ch) ==
    IF \E k \in 1..Len(AsciiSmall) : AsciiSmall[k] = ch
    THEN 96 + CHOOSE k \in 1..Len(AsciiSmall) : AsciiSmall[k] = ch
    ELSE 31 + CHOOSE k \in 1..Len(AsciiSigns) : AsciiSigns[k] = ch

\* the str written as the tuple of its ASCII characters
Str(lit) == [k \in 1..Len(lit) |-> Ord(lit[k])]

\* characters outside ASCII that the texts of the model use:
\* U+00E9 (e with acute accent, a letter) and U+2003 (em space)
EAcute == 233
EmSpace == 8195

\* the characters the fonts of the model measure
Chars == {Ord("i"), Ord("W"), Ord("."), Ord(" "), EAcute}

\* str * n
Rep(c, n) == [k \in 1..n |-> c]

\* all strings over alphabet A of length at most n
StringsUpTo(A, n) == UNION {[1..k -> A] : k \in 0..n}

\* a proportional font and a fixed-pitch font
FontProp == [c \in Chars |-> IF c \in {Ord("W"), EAcute} THEN 40 ELSE 10]
FontMono == [c \in Chars |-> 20]
Fonts == {FontProp, FontMono}

\* font.getbbox(text)[2] - font.getbbox(text)[0]
RECURSIVE TextWidth(_, _)
TextWidth(font, text) ==
    IF text = <<>> THEN 0
    ELSE font[Head(text)] + TextWidth(font, Tail(text))

\* the characters str.split() separates on, those of str.isspace():
\* U+0009 to U+000D, U+001C to U+0020, U+0085, U+00A0, U+1680,
\* U+2000 to U+200A, U+2028, U+2029, U+202F, U+205F, U+3000
IsSpace(c) ==
    \/ c \in 9..13
    \/ c \in 28..32
    \/ c \in {133, 160, 5760}
    \/ c \in 8192..8202
    \/ c \in {8232, 8233, 8239, 8287, 12288}

\* text.split(): maximal runs of non-whitespace characters, in order
RECURSIVE SplitFrom(_, _, _, _)
SplitFrom(text, k, cur, acc) ==
    IF k > Len(text)
    THEN IF cur = <<>> THEN acc ELSE Append(acc, cur)
    ELSE IF IsSpace(text[k])
         THEN SplitFrom(text, k + 1, <<>>, IF cur = <<>> THEN acc ELSE Append(acc, cur))
         ELSE SplitFrom(text, k + 1, Append(cur, text[k]), acc)

Split(text) == SplitFrom(text, 1, <<>>, <<>>)

\* ' '.join(words)
RECURSIVE Join(_)
Join(words) ==
    IF words = <<>> THEN <<>>
    ELSE IF Len(words) = 1 THEN words[1]
    ELSE words[1] \o Str(<<" ">>) \o Join(Tail(words))

-----------------------------------------------------------------------------
(* draw_wrapped_text: the greedy word wrap *)

\* body of `for word in words`, as a faulty variant that measures the
\* word alone instead of current_line + [word]
WrapStepMeasuresWord(st, word, font, max_width) ==
    IF TextWidth(font, word) <= max_width
    THEN [lines |-> st.lines, current_line |-> Append(st.current_line, word)]
    ELSE IF st.current_line # <<>>
         THEN [lines |-> Append(st.lines, Join(st.current_line)),
               current_line |-> <<word>>]
         ELSE [lines |-> Append(st.lines, word), current_line |-> <<>>]

\* body of `for word in words`, as a faulty variant that closes the line
\* and forgets to start the next one with the word
WrapStepDropsWord(st, word, font, max_width) ==
    LET test_line == Join(Append(st.current_line, word))
    IN IF TextWidth(font, test_line) <= max_width
       THEN [lines |-> st.lines, current_line |-> Append(st.current_line, word)]
       ELSE IF st.current_line # <<>>
            THEN [lines |-> Append(st.lines, Join(st.current_line)),
                  current_line |-> <<>>]
            ELSE [lines |-> Append(st.lines, word), current_line |-> <<>>]

\* body of `for word in words`
WrapStep(st, word, font, max_width) ==
    LET test_line == Join(Append(st.current_line, word))
        test_line_width == TextWidth(font, test_line)
    IN IF test_line_width <= max_width
       THEN [lines |-> st.lines, current_line |-> Append(st.current_line, word)]
       ELSE IF st.current_line # <<>>
            THEN [lines |-> Append(st.lines, Join(st.current_line)),
                  current_line |-> <<word>>]
            ELSE [lines |-> Append(st.lines, word), current_line |-> <<>>]

\* `if current_line: lines.append(' '.join(current_line))`
WrapFlush(st) ==
    IF st.current_line # <<>>
    THEN Append(st.lines, Join(st.current_line))
    ELSE st.lines

RECURSIVE WrapFold(_, _, _, _)
WrapFold(st, words, font, max_width) ==
    IF words = <<>> THEN st
    ELSE WrapFold(WrapStep(st, Head(words), font, max_width), Tail(words), font, max_width)

\* the lines draw_wrapped_text draws, top to bottom
WrapLines(text, font, max_width) ==
    WrapFlush(WrapFold([lines |-> <<>>, current_line |-> <<>>], Split(text), font, max_width))

\* ---- the wrap, one loop iteration per step ----

\* texts over the letters i and e-acute, the space and the em space
WrapTexts == StringsUpTo({Ord("i"), EAcute, Ord(" "), EmSpace}, MaxTextLen)
WrapWidths == {0, 20, 40, 70}

WrapIdle ==
    /\ w_text = <<>>
    /\ w_font = FontProp
    /\ w_max = 0
    /\ w_words = <<>>
    /\ w_i = 0
    /\ w_lines = <<>>
    /\ w_cur = <<>>
    /\ w_pc = "idle"

WrapStart ==
    /\ w_text \in WrapTexts
    /\ w_font \in Fonts
    /\ w_max \in WrapWidths
    /\ w_words = <<>>
    /\ w_i = 0
    /\ w_lines = <<>>
    /\ w_cur = <<>>
    /\ w_pc = "split"

WrapSplit ==
    /\ w_pc = "split"
    /\ w_words' = Split(w_text)
    /\ w_pc' = "loop"
    /\ UNCHANGED <<w_text, w_font, w_max, w_i, w_lines, w_cur>>
    /\ UNCHANGED <<genVars, concVars>>

WrapWord ==
    /\ w_pc = "loop"
    /\ w_i < Len(w_words)
    /\ LET st == WrapStep([lines |-> w_lines, current_line |-> w_cur],
                          w_words[w_i + 1], w_font, w_max)
       IN /\ w_lines' = st.lines
          /\ w_cur' = st.current_line
    /\ w_i' = w_i + 1
    /\ UNCHANGED <<w_text, w_font, w_max, w_words, w_pc>>
    /\ UNCHANGED <<genVars, concVars>>

WrapEnd ==
    /\ w_pc = "loop"
    /\ w_i = Len(w_words)
    /\ w_lines' = WrapFlush([lines |-> w_lines, current_line |-> w_cur])
    /\ w_cur' = w_cur
    /\ w_pc' = "done"
    /\ UNCHANGED <<w_text, w_font, w_max, w_words, w_i>>
    /\ UNCHANGED <<genVars, concVars>>

WrapNext == WrapSplit \/ WrapWord \/ WrapEnd

-----------------------------------------------------------------------------
(* Optional values *)

None == [some |-> FALSE, val |-> <<>>]
Some(x) == [some |-> TRUE, val |-> x]

-----------------------------------------------------------------------------
(* Scene names, background assets, colours, output path *)

\* str.lower() on one character with a code point below 256: A to Z and the
\* capitals of Latin-1 (U+00C0 to U+00DE without the sign U+00D7) move up by
\* 32, every other character stays
LowerChar(c) ==
    IF c \in 65..90 \/ (c \in 192..222 /\ c # 215) THEN c + 32 ELSE c

Lower(s) == [k \in 1..Len(s) |-> LowerChar(s[k])]

\* s.replace(old, new) for a one-character old
RECURSIVE Replace(_, _, _)
Replace(s, old, new) ==
    IF s = <<>> THEN <<>>
    ELSE (IF Head(s) = old THEN new ELSE <<Head(s)>>) \o Replace(Tail(s), old, new)

Atrium == Str(<<"l","'","a","t","r","i","u","m">>)
Refuge == Str(<<"l","e"," ","r","e","f","u","g","e">>)

\* the scene_name branch choosing the background; "raise" is the ValueError
BackgroundOf(scene) ==
    IF Lower(scene) = Atrium THEN "assets/orange.png"
    ELSE IF Lower(scene) = Refuge THEN "assets/purple.png"
    ELSE "raise"

white_pill_bg == <<255, 255, 255, 220>>

\* colored_pill_bg
ColoredPillBg(scene) ==
    IF Lower(scene) = Atrium THEN <<255, 134, 53, 255>>
    ELSE IF Lower(scene) = Refuge THEN <<182, 140, 254, 220>>
    ELSE <<255, 255, 255, 220>>

\* scene_safe_name
SceneSafeName(scene) ==
    Replace(Replace(Lower(scene), Ord("'"), <<>>), Ord(" "), Str(<<"_">>))

\* f"output_{scene_safe_name}.png"
DefaultPath(scene) ==
    Str(<<"o","u","t","p","u","t","_">>) \o SceneSafeName(scene) \o Str(<<".","p","n","g">>)

\* the path given to image.save, as a faulty variant that ignores the argument
ResolvePathIgnoresArgument(out, scene) == DefaultPath(scene)

\* `if output_path is None: ...`: the path given to image.save
ResolvePath(out, scene) == IF ~out.some THEN DefaultPath(scene) ELSE out.val

\* f"{frequency} FM"
FrequencyText(freq) == freq \o Str(<<" ", "F", "M">>)

-----------------------------------------------------------------------------
(* The tag pills: constants of the layout *)

pill_start_x == 66
right_margin == 66
pill_gap_x == 24
padding_x == 30
radio_margin == 200
floor_len == 3

Ellipsis == Str(<<".", ".", ".">>)

\* lines = [ [0,1], [2,3], [4] ], as 1-based positions in tags
RowLines == << <<1, 2>>, <<3, 4>>, <<5>> >>

\* the guard of the tag block, as a faulty variant that accepts longer lists
TagsOkAtLeastFive(t) == t.some /\ Len(t.val) >= 5

\* `if tags and len(tags) == 5`
TagsOk(t) == t.some /\ t.val # <<>> /\ Len(t.val) = 5

\* max_pill_right - pill_start_x
AvailableWidth(w) == (w - right_margin) - pill_start_x

\* pill_w(text)
PillW(font, text) == TextWidth(font, text) + 2 * padding_x

\* one truncation, as a faulty variant that drops two characters
TruncateTwo(s) ==
    LET t == SubSeq(s, 1, Len(s) - 2)
    IN IF Len(t) > floor_len THEN SubSeq(t, 1, Len(t) - 3) \o Ellipsis ELSE t

\* display_tag = display_tag[:-1]; if len(display_tag) > 3: display_tag[:-3] + '...'
Truncate(s) ==
    LET t == SubSeq(s, 1, Len(s) - 1)
    IN IF Len(t) > floor_len THEN SubSeq(t, 1, Len(t) - 3) \o Ellipsis ELSE t

\* the branch of one two-pill iteration, as a faulty variant that always tries
\* the second label first
PairChoiceSecondFirst(font, d0, d1, avail) ==
    LET w0 == PillW(font, d0)
        w1 == PillW(font, d1)
    IN IF w0 + pill_gap_x + w1 <= avail THEN "fit"
       ELSE IF Len(d1) > floor_len THEN "second"
       ELSE IF Len(d0) > floor_len THEN "first"
       ELSE "floor"

\* the branch of one two-pill iteration, as a faulty variant without the elif
\* branch
PairChoiceNoSecond(font, d0, d1, avail) ==
    LET w0 == PillW(font, d0)
        w1 == PillW(font, d1)
    IN IF w0 + pill_gap_x + w1 <= avail THEN "fit"
       ELSE IF w0 >= w1 /\ Len(d0) > floor_len THEN "first"
       ELSE "floor"

\* the branch one iteration of the two-pill loop takes:
\* "fit" (break), "first", "second" (truncate that label), "floor" (break)
PairChoice(font, d0, d1, avail) ==
    LET w0 == PillW(font, d0)
        w1 == PillW(font, d1)
        total == w0 + pill_gap_x + w1
    IN IF total <= avail THEN "fit"
       ELSE IF w0 >= w1 /\ Len(d0) > floor_len THEN "first"
       ELSE IF Len(d1) > floor_len THEN "second"
       ELSE "floor"

\* `if pill_width <= max_pill_width or len(display_tag) <= 3: break`
SingleDone(font, d, max_pill_width) ==
    PillW(font, d) <= max_pill_width \/ Len(d) <= floor_len

\* the two-pill while loop, run to its break
RECURSIVE FitPair(_, _, _, _)
FitPair(font, d0, d1, avail) ==
    LET c == PairChoice(font, d0, d1, avail)
    IN IF c = "first" THEN FitPair(font, Truncate(d0), d1, avail)
       ELSE IF c = "second" THEN FitPair(font, d0, Truncate(d1), avail)
       ELSE <<d0, d1>>

\* the single-pill while loop, run to its break
RECURSIVE FitSingle(_, _, _)
FitSingle(font, d, max_pill_width) ==
    IF SingleDone(font, d, max_pill_width) THEN d
    ELSE FitSingle(font, Truncate(d), max_pill_width)

\* pill_bg for the pill with running counter idx, as a faulty variant
\* colouring by 1-based position
PillBgOneBased(scene, idx) ==
    IF idx = 2 \/ idx = 3 THEN ColoredPillBg(scene) ELSE white_pill_bg

\* `colored_pill_bg if pill_idx == 1 or pill_idx == 2 else white_pill_bg`
PillBg(scene, idx) ==
    IF idx = 1 \/ idx = 2 THEN ColoredPillBg(scene) ELSE white_pill_bg

\* one draw_pill call of the tag block
Pill(row, tag_index, text, bg) ==
    [row |-> row, tag |-> tag_index, text |-> text, bg |-> bg]

\* the draw_pill calls of the whole tag block, in call order
DrawnPills(scene, t, font, w) ==
    IF ~TagsOk(t) THEN <<>>
    ELSE LET avail == AvailableWidth(w)
             r0 == FitPair(font, t.val[1], t.val[2], avail)
             r1 == FitPair(font, t.val[3], t.val[4], avail)
             r2 == FitSingle(font, t.val[5], avail)
         IN << Pill(0, 0, r0[1], PillBg(scene, 0)), Pill(0, 1, r0[2], PillBg(scene, 1)),
               Pill(1, 2, r1[1], PillBg(scene, 2)), Pill(1, 3, r1[2], PillBg(scene, 3)),
               Pill(2, 4, r2, PillBg(scene, 4)) >>

\* what the saved image shows
Image(freq, scene, radio, radio_font, t, font, w) ==
    [background |-> BackgroundOf(scene),
     header |-> FrequencyText(freq),
     radio |-> WrapLines(radio, radio_font, w - radio_margin),
     pills |-> DrawnPills(scene, t, font, w)]

-----------------------------------------------------------------------------
(* One call of generate_freq_image, one statement group per step *)

\* inputs
MixTag(n) == [k \in 1..n |-> IF k % 2 = 1 THEN Ord("i") ELSE Ord("W")]
TagPool == {Rep(Ord("i"), 1), Rep(Ord("i"), MaxTagLen), Rep(Ord("W"), 3), MixTag(MaxTagLen)}
Widths == {232, 400, 1080}
SceneAtrium == Str(<<"L","'","A","t","r","i","u","m">>)
SceneRefuge == Str(<<"L","e"," ","R","e","f","u","g","e">>)
SceneOther == Str(<<"L","e"," ","B","a","r">>)
PathA == Str(<<"a",".","p","n","g">>)
PathB == Str(<<"b",".","p","n","g">>)
Freq973 == Str(<<"9","7",".","3">>)
Freq1089 == Str(<<"1","0","8",".","9">>)
RadioName == Str(<<"i"," ","i">>)

GenIdle ==
    /\ frequency = Freq973
    /\ scene_name = SceneAtrium
    /\ radio_station_name = RadioName
    /\ tags = None
    /\ output_path = None
    /\ bg_exists = TRUE
    /\ width = 400
    /\ tags_font = FontProp
    /\ radio_station_font = FontProp
    /\ pc = "idle"
    /\ error = "none"
    /\ header = <<>>
    /\ radio_lines = <<>>
    /\ line_num = 0
    /\ pill_idx = 0
    /\ display_tag0 = <<>>
    /\ display_tag1 = <<>>
    /\ display_tag = <<>>
    /\ iters = 0
    /\ drawn = <<>>
    /\ saved = None
    /\ returned = None

\* SpecConc's variables while no parallel call runs
ConcIdle ==
    /\ c_args = <<>>
    /\ c_pc = <<>>
    /\ c_image = <<>>
    /\ c_ret = <<>>
    /\ c_pos = <<>>
    /\ files = <<>>

\* a call with five tags: every combination of pool tags, canvas and font
GenArgsFive ==
    /\ scene_name \in {SceneAtrium, SceneRefuge}
    /\ tags \in {Some(t) : t \in [1..5 -> TagPool]}
    /\ output_path = None
    /\ bg_exists = TRUE
    /\ width \in Widths
    /\ tags_font \in Fonts
    /\ radio_station_font \in Fonts

\* a call with any scene, any tag count, with or without output_path
GenArgsAny ==
    /\ scene_name \in {SceneAtrium, SceneRefuge, SceneOther}
    /\ tags \in {None, Some(<<>>)}
             \cup {Some([k \in 1..n |-> MixTag(MaxTagLen)]) : n \in {1, 4, 5, 6}}
    /\ output_path \in {None, Some(PathA)}
    /\ bg_exists \in BOOLEAN
    /\ width = 400
    /\ tags_font = FontProp
    /\ radio_station_font \in Fonts

Init ==
    /\ WrapIdle
    /\ ConcIdle
    /\ frequency = Freq973
    /\ radio_station_name = RadioName
    /\ GenArgsFive \/ GenArgsAny
    /\ pc = "start"
    /\ error = "none"
    /\ header = <<>>
    /\ radio_lines = <<>>
    /\ line_num = 0
    /\ pill_idx = 0
    /\ display_tag0 = <<>>
    /\ display_tag1 = <<>>
    /\ display_tag = <<>>
    /\ iters = 0
    /\ drawn = <<>>
    /\ saved = None
    /\ returned = None

rowVars == <<line_num, pill_idx, display_tag0, display_tag1, display_tag, iters, drawn>>

\* raise ValueError(f"Unknown scene_name: ...")
RaiseUnknownScene ==
    /\ pc = "start"
    /\ BackgroundOf(scene_name) = "raise"
    /\ error' = "ValueError"
    /\ pc' = "raised"
    /\ UNCHANGED <<inputVars, header, radio_lines, rowVars, saved, returned>>
    /\ UNCHANGED <<wrapVars, concVars>>

\* raise FileNotFoundError(f"Background image not found: ...")
RaiseMissingBackground ==
    /\ pc = "start"
    /\ BackgroundOf(scene_name) # "raise"
    /\ ~bg_exists
    /\ error' = "FileNotFoundError"
    /\ pc' = "raised"
    /\ UNCHANGED <<inputVars, header, radio_lines, rowVars, saved, returned>>
    /\ UNCHANGED <<wrapVars, concVars>>

\* Image.open, the fonts, then frequency, genre, scene pill, date and the
\* wrapped radio station name
DrawHeader ==
    /\ pc = "start"
    /\ BackgroundOf(scene_name) # "raise"
    /\ bg_exists
    /\ header' = FrequencyText(frequency)
    /\ radio_lines' = WrapLines(radio_station_name, radio_station_font, width - radio_margin)
    /\ pc' = "tags"
    /\ UNCHANGED <<inputVars, error, rowVars, saved, returned>>
    /\ UNCHANGED <<wrapVars, concVars>>

\* `if tags and len(tags) == 5:` taken
TagsAccepted ==
    /\ pc = "tags"
    /\ TagsOk(tags)
    /\ line_num' = 0
    /\ pill_idx' = 0
    /\ pc' = "row"
    /\ UNCHANGED <<inputVars, error, header, radio_lines, display_tag0, display_tag1,
                   display_tag, iters, drawn, saved, returned>>
    /\ UNCHANGED <<wrapVars, concVars>>

\* `if tags and len(tags) == 5:` not taken
TagsSkipped ==
    /\ pc = "tags"
    /\ ~TagsOk(tags)
    /\ pc' = "save"
    /\ UNCHANGED <<inputVars, error, header, radio_lines, rowVars, saved, returned>>
    /\ UNCHANGED <<wrapVars, concVars>>

\* `for line_num, tag_indices in enumerate(lines)`, a row of two pills
RowPairBegin ==
    /\ pc = "row"
    /\ line_num < Len(RowLines)
    /\ Len(RowLines[line_num + 1]) = 2
    /\ display_tag0' = tags.val[RowLines[line_num + 1][1]]
    /\ display_tag1' = tags.val[RowLines[line_num + 1][2]]
    /\ iters' = 0
    /\ pc' = "pair"
    /\ UNCHANGED <<inputVars, error, header, radio_lines, line_num, pill_idx,
                   display_tag, drawn, saved, returned>>
    /\ UNCHANGED <<wrapVars, concVars>>

\* `for line_num, tag_indices in enumerate(lines)`, the row of one pill
RowSingleBegin ==
    /\ pc = "row"
    /\ line_num < Len(RowLines)
    /\ Len(RowLines[line_num + 1]) # 2
    /\ display_tag' = tags.val[RowLines[line_num + 1][1]]
    /\ iters' = 0
    /\ pc' = "single"
    /\ UNCHANGED <<inputVars, error, header, radio_lines, line_num, pill_idx,
                   display_tag0, display_tag1, drawn, saved, returned>>
    /\ UNCHANGED <<wrapVars, concVars>>

\* the for loop over lines is exhausted
RowsEnd ==
    /\ pc = "row"
    /\ line_num = Len(RowLines)
    /\ pc' = "save"
    /\ UNCHANGED <<inputVars, error, header, radio_lines, rowVars, saved, returned>>
    /\ UNCHANGED <<wrapVars, concVars>>

PairBranch == PairChoice(tags_font, display_tag0, display_tag1, AvailableWidth(width))

\* `if total <= available_width: break`
PairFit ==
    /\ pc = "pair"
    /\ PairBranch = "fit"
    /\ pc' = "pair_draw"
    /\ UNCHANGED <<inputVars, error, header, radio_lines, rowVars, saved, returned>>
    /\ UNCHANGED <<wrapVars, concVars>>

\* `if w0 >= w1 and len(display_tag0) > 3:` truncate the first label
PairTruncFirst ==
    /\ pc = "pair"
    /\ PairBranch = "first"
    /\ display_tag0' = Truncate(display_tag0)
    /\ iters' = iters + 1
    /\ UNCHANGED <<inputVars, pc, error, header, radio_lines, line_num, pill_idx,
                   display_tag1, display_tag, drawn, saved, returned>>
    /\ UNCHANGED <<wrapVars, concVars>>

\* `elif len(display_tag1) > 3:` truncate the second label
PairTruncSecond ==
    /\ pc = "pair"
    /\ PairBranch = "second"
    /\ display_tag1' = Truncate(display_tag1)
    /\ iters' = iters + 1
    /\ UNCHANGED <<inputVars, pc, error, header, radio_lines, line_num, pill_idx,
                   display_tag0, display_tag, drawn, saved, returned>>
    /\ UNCHANGED <<wrapVars, concVars>>

\* `else: break`
PairFloor ==
    /\ pc = "pair"
    /\ PairBranch = "floor"
    /\ pc' = "pair_draw"
    /\ UNCHANGED <<inputVars, error, header, radio_lines, rowVars, saved, returned>>
    /\ UNCHANGED <<wrapVars, concVars>>

\* the two draw_pill calls of the row, `pill_idx += 2`
PairDraw ==
    /\ pc = "pair_draw"
    /\ drawn' = drawn \o
         << Pill(line_num, RowLines[line_num + 1][1] - 1, display_tag0,
                 PillBg(scene_name, pill_idx)),
            Pill(line_num, RowLines[line_num + 1][2] - 1, display_tag1,
                 PillBg(scene_name, pill_idx + 1)) >>
    /\ pill_idx' = pill_idx + 2
    /\ line_num' = line_num + 1
    /\ pc' = "row"
    /\ UNCHANGED <<inputVars, error, header, radio_lines, display_tag0, display_tag1,
                   display_tag, iters, saved, returned>>
    /\ UNCHANGED <<wrapVars, concVars>>

\* `if pill_width <= max_pill_width or len(display_tag) <= 3: break`
SingleBreak ==
    /\ pc = "single"
    /\ SingleDone(tags_font, display_tag, AvailableWidth(width))
    /\ pc' = "single_draw"
    /\ UNCHANGED <<inputVars, error, header, radio_lines, rowVars, saved, returned>>
    /\ UNCHANGED <<wrapVars, concVars>>

\* one truncating iteration of the single-pill loop
SingleTrunc ==
    /\ pc = "single"
    /\ ~SingleDone(tags_font, display_tag, AvailableWidth(width))
    /\ display_tag' = Truncate(display_tag)
    /\ iters' = iters + 1
    /\ UNCHANGED <<inputVars, pc, error, header, radio_lines, line_num, pill_idx,
                   display_tag0, display_tag1, drawn, saved, returned>>
    /\ UNCHANGED <<wrapVars, concVars>>

\* the draw_pill call of the last row, `pill_idx += 1`
SingleDraw ==
    /\ pc = "single_draw"
    /\ drawn' = Append(drawn, Pill(line_num, RowLines[line_num + 1][1] - 1, display_tag,
                                   PillBg(scene_name, pill_idx)))
    /\ pill_idx' = pill_idx + 1
    /\ line_num' = line_num + 1
    /\ pc' = "row"
    /\ UNCHANGED <<inputVars, error, header, radio_lines, display_tag0, display_tag1,
                   display_tag, iters, saved, returned>>
    /\ UNCHANGED <<wrapVars, concVars>>

\* the output path, image.save(output_path), return output_path
SaveAndReturn ==
    /\ pc = "save"
    /\ LET path == ResolvePath(output_path, scene_name)
       IN /\ saved' = Some([path |-> path,
                            image |-> [background |-> BackgroundOf(scene_name),
                                       header |-> header,
                                       radio |-> radio_lines,
                                       pills |-> drawn]])
          /\ returned' = Some(path)
    /\ pc' = "done"
    /\ UNCHANGED <<inputVars, error, header, radio_lines, rowVars>>
    /\ UNCHANGED <<wrapVars, concVars>>

Next ==
    \/ RaiseUnknownScene
    \/ RaiseMissingBackground
    \/ DrawHeader
    \/ TagsAccepted
    \/ TagsSkipped
    \/ RowPairBegin
    \/ RowSingleBegin
    \/ RowsEnd
    \/ PairFit
    \/ PairTruncFirst
    \/ PairTruncSecond
    \/ PairFloor
    \/ PairDraw
    \/ SingleBreak
    \/ SingleTrunc
    \/ SingleDraw
    \/ SaveAndReturn

Spec == Init /\ [][Next]_vars

\* the wrap on its own
InitWrap == WrapStart /\ GenIdle /\ ConcIdle

SpecWrap == InitWrap /\ [][WrapNext]_vars

-----------------------------------------------------------------------------
(* Two calls of generate_freq_image running in parallel on one filesystem. *)
(* A call touches nothing shared until image.save, so its steps are: the   *)
(* scene and background checks, the composition on its own canvas, the     *)
(* save, the return.  image.save is not atomic: it opens the file, which   *)
(* empties it, and writes it piece by piece, each call at its own offset.  *)
(* The background assets are present.                                      *)

Calls == {1, 2}

\* the file image.save writes for an image, as its pieces in order
EncodedFile(img) == [k \in 1..FileChunks |-> [image |-> img, part |-> k]]

\* the zero bytes a write past the end of a file leaves before it
Hole == [image |-> [background |-> "", header |-> <<>>, radio |-> <<>>, pills |-> <<>>],
         part |-> 0]

\* a file's pieces after writing piece at offset k; a write past the end
\* leaves a hole before it
WriteAt(data, k, piece) ==
    [j \in 1..(IF Len(data) > k THEN Len(data) ELSE k) |->
        IF j = k THEN piece
        ELSE IF j <= Len(data) THEN data[j]
        ELSE Hole]

FiveTags == Some(<<Rep(Ord("i"), MaxTagLen), Rep(Ord("W"), 3), MixTag(MaxTagLen), Rep(Ord("i"), 1),
                   Rep(Ord("i"), MaxTagLen)>>)

CallArgs ==
    [frequency : {Freq973, Freq1089},
     scene_name : {SceneAtrium, SceneRefuge, SceneOther},
     radio_station_name : {RadioName},
     tags : {FiveTags},
     output_path : {None, Some(PathA), Some(PathB)},
     width : {400},
     tags_font : {FontProp},
     radio_station_font : {FontProp}]

InitConc ==
    /\ WrapIdle
    /\ GenIdle
    /\ c_args \in [Calls -> CallArgs]
    /\ c_pc = [c \in Calls |-> "start"]
    /\ c_image = [c \in Calls |-> None]
    /\ c_ret = [c \in Calls |-> None]
    /\ c_pos = [c \in Calls |-> 0]
    /\ files = [p \in {ResolvePath(c_args[c].output_path, c_args[c].scene_name) : c \in Calls}
                  |-> None]

\* raise ValueError: the call ends without an image
CallRaise(c) ==
    /\ c_pc[c] = "start"
    /\ BackgroundOf(c_args[c].scene_name) = "raise"
    /\ c_pc' = [c_pc EXCEPT ![c] = "raised"]
    /\ UNCHANGED <<c_args, c_image, c_ret, c_pos, files>>
    /\ UNCHANGED <<wrapVars, genVars>>

\* everything drawn on the call's own canvas
CallCompose(c) ==
    /\ c_pc[c] = "start"
    /\ BackgroundOf(c_args[c].scene_name) # "raise"
    /\ c_image' = [c_image EXCEPT ![c] =
                      Some(Image(c_args[c].frequency, c_args[c].scene_name,
                                 c_args[c].radio_station_name,
                                 c_args[c].radio_station_font, c_args[c].tags,
                                 c_args[c].tags_font, c_args[c].width))]
    /\ c_pc' = [c_pc EXCEPT ![c] = "save"]
    /\ UNCHANGED <<c_args, c_ret, c_pos, files>>
    /\ UNCHANGED <<wrapVars, genVars>>

\* image.save(output_path) opens the file for writing: the file is created
\* or emptied
CallOpen(c) ==
    /\ c_pc[c] = "save"
    /\ files' = [files EXCEPT ![ResolvePath(c_args[c].output_path, c_args[c].scene_name)] =
                    Some(<<>>)]
    /\ c_pos' = [c_pos EXCEPT ![c] = 0]
    /\ c_pc' = [c_pc EXCEPT ![c] = "write"]
    /\ UNCHANGED <<c_args, c_image, c_ret>>
    /\ UNCHANGED <<wrapVars, genVars>>

\* image.save(output_path) writes the next piece at the call's own offset
CallWrite(c) ==
    /\ c_pc[c] = "write"
    /\ c_pos[c] < FileChunks
    /\ LET path == ResolvePath(c_args[c].output_path, c_args[c].scene_name)
       IN files' = [files EXCEPT ![path] =
                       Some(WriteAt(files[path].val, c_pos[c] + 1,
                                    EncodedFile(c_image[c].val)[c_pos[c] + 1]))]
    /\ c_pos' = [c_pos EXCEPT ![c] = c_pos[c] + 1]
    /\ UNCHANGED <<c_args, c_pc, c_image, c_ret>>
    /\ UNCHANGED <<wrapVars, genVars>>

\* the save is complete; return output_path
CallReturn(c) ==
    /\ c_pc[c] = "write"
    /\ c_pos[c] = FileChunks
    /\ c_ret' = [c_ret EXCEPT ![c] =
                    Some(ResolvePath(c_args[c].output_path, c_args[c].scene_name))]
    /\ c_pc' = [c_pc EXCEPT ![c] = "done"]
    /\ UNCHANGED <<c_args, c_image, c_pos, files>>
    /\ UNCHANGED <<wrapVars, genVars>>

NextConc ==
    \E c \in Calls :
        CallRaise(c) \/ CallCompose(c) \/ CallOpen(c) \/ CallWrite(c) \/ CallReturn(c)

SpecConc == InitConc /\ [][NextConc]_vars

-----------------------------------------------------------------------------
(* Properties *)

\* the stepwise call draws and saves what the loops run to completion give
StepwiseAgrees ==
    pc = "done" =>
        saved.val.image = Image(frequency, scene_name, radio_station_name,
                                radio_station_font, tags, tags_font, width)

InRow == pc \in {"pair", "pair_draw", "single", "single_draw"}
InPair == pc \in {"pair", "pair_draw"}
InSingle == pc \in {"single", "single_draw"}

\* the tag texts of the row being laid out, as given
Orig0 == tags.val[RowLines[line_num + 1][1]]
Orig1 == tags.val[RowLines[line_num + 1][2]]

Max0(n) == IF n > 0 THEN n ELSE 0

IsPrefix(p, s) == Len(p) <= Len(s) /\ SubSeq(s, 1, Len(p)) = p

\* the pills drawn in row r, left to right
RowPills(r) == SelectSeq(drawn, LAMBDA p : p.row = r)

\* sum of the pill widths of a row plus one gap between neighbours
RECURSIVE PillsWidth(_)
PillsWidth(ps) ==
    IF ps = <<>> THEN 0
    ELSE PillW(tags_font, Head(ps).text)
         + (IF Len(ps) > 1 THEN pill_gap_x ELSE 0) + PillsWidth(Tail(ps))

RowFits(r) == PillsWidth(RowPills(r)) <= AvailableWidth(width)

LayoutDone == pc = "done" /\ TagsOk(tags)

\* C1 as stated: once the five-tag layout has finished, the pills of each of
\* the three rows, with 24 px per gap, fit in canvas width - 2*66.
C1_EveryRowFits ==
    LayoutDone => \A r \in 0..2 : RowFits(r)

\* C1 amended: once the five-tag layout has finished, a row exceeds the row
\* budget only where its loop stopped at the length floor: in a two-pill row
\* the second label then has at most 3 characters and the first has at most
\* 3 characters or the narrower pill; in the single-pill row the label then
\* has at most 3 characters.
C1_RowFitsOrFloor ==
    LayoutDone =>
        /\ \A r \in 0..1 :
              LET ps == RowPills(r)
              IN \/ RowFits(r)
                 \/ /\ Len(ps[2].text) <= floor_len
                    /\ \/ Len(ps[1].text) <= floor_len
                       \/ PillW(tags_font, ps[1].text) < PillW(tags_font, ps[2].text)
        /\ RowFits(2) \/ Len(RowPills(2)[1].text) <= floor_len

\* C1 witness: a finished layout with a row that was truncated until it fits
\* and a row left over budget with both labels at the floor
C1_Witness ==
    /\ LayoutDone
    /\ RowFits(0) /\ RowPills(0)[1].text # tags.val[1]
    /\ ~RowFits(1)
    /\ Len(RowPills(1)[1].text) <= floor_len

\* C2: a finished five-tag call has drawn the rows [0,1], [2,3], [4] in that
\* order, each tag once, pills 2 and 3 (1-indexed) on the scene colour and
\* pills 1, 4 and 5 on white, truncated or not.
C2_RowsAndColours ==
    LayoutDone =>
        /\ [k \in 1..Len(drawn) |-> <<drawn[k].row, drawn[k].tag>>]
              = << <<0, 0>>, <<0, 1>>, <<1, 2>>, <<1, 3>>, <<2, 4>> >>
        /\ \A k \in 1..Len(drawn) :
              drawn[k].bg = IF k \in {2, 3} THEN ColoredPillBg(scene_name)
                            ELSE white_pill_bg
        /\ ColoredPillBg(scene_name) # white_pill_bg
        /\ \A k \in 1..Len(drawn) :
              Len(drawn[k].text) <= Len(tags.val[k])
              /\ (drawn[k].text # <<>> => drawn[k].text[1] = tags.val[k][1])

\* C2 witness: a finished call whose coloured pills were truncated
C2_Witness ==
    /\ LayoutDone
    /\ Len(drawn) = 5
    /\ drawn[2].text # tags.val[2]
    /\ drawn[3].text # tags.val[3]
    /\ drawn[1].text = tags.val[1]
    /\ drawn[2].bg = <<182, 140, 254, 220>>

WordsFit == \A k \in 1..Len(Split(w_text)) : TextWidth(w_font, Split(w_text)[k]) <= w_max

\* C3: when max_width is at least the width of the longest word, every line
\* the wrap produces measures at most max_width.
C3_LinesWithinWidth ==
    (w_pc \in {"loop", "done"} /\ WordsFit) =>
        /\ \A k \in 1..Len(w_lines) : TextWidth(w_font, w_lines[k]) <= w_max
        /\ TextWidth(w_font, Join(w_cur)) <= w_max

\* C3 witness: a finished wrap of fitting words, one of them after an em
\* space, into several lines, one of them holding two words
C3_Witness ==
    /\ w_pc = "done"
    /\ WordsFit
    /\ \E k \in 1..Len(w_text) : w_text[k] = EmSpace
    /\ Len(w_lines) >= 2
    /\ \E k \in 1..Len(w_lines) : Len(Split(w_lines[k])) >= 2

\* the tag list is missing or does not hold exactly five labels
WrongCount == ~(tags.some /\ Len(tags.val) = 5)

\* C4 as stated: a call whose tag list is not exactly five labels aborts:
\* it saves no image and returns no path.
C4_WrongCountAborts ==
    WrongCount => (~saved.some /\ ~returned.some /\ pc # "done")

\* C4 amended: a call whose tag list is not exactly five labels (empty and
\* missing included) raises nothing for it: it draws no tag pill, and with a
\* known scene and its background present it still saves the image, without
\* pills, and returns the path; only an unknown scene or a missing
\* background aborts the call.
C4_WrongCountSkipsPills ==
    WrongCount =>
        /\ drawn = <<>>
        /\ pc = "raised" =>
              /\ ~saved.some /\ ~returned.some
              /\ \/ error = "ValueError" /\ BackgroundOf(scene_name) = "raise"
                 \/ error = "FileNotFoundError" /\ ~bg_exists
        /\ pc # "raised" => error = "none"
        /\ pc = "save" => BackgroundOf(scene_name) # "raise" /\ bg_exists
        /\ pc = "done" =>
              /\ saved.some /\ returned.some
              /\ saved.val.image.pills = <<>>
              /\ saved.val.path = returned.val

\* C4 witness: a call with four tags that has saved and returned
C4_Witness ==
    /\ tags.some /\ Len(tags.val) = 4
    /\ pc = "done"
    /\ saved.some /\ returned.some
    /\ saved.val.image.pills = <<>>

OwnImage(c) ==
    Image(c_args[c].frequency, c_args[c].scene_name, c_args[c].radio_station_name,
          c_args[c].radio_station_font, c_args[c].tags, c_args[c].tags_font,
          c_args[c].width)

BothReturned == \A c \in Calls : c_pc[c] = "done"

\* the path a call is asked to write, read off its arguments
Target(c) ==
    IF c_args[c].output_path.some THEN c_args[c].output_path.val
    ELSE Str(<<"o","u","t","p","u","t","_">>) \o
         (IF Lower(c_args[c].scene_name) = Atrium
          THEN Str(<<"l","a","t","r","i","u","m">>)
          ELSE Str(<<"l","e","_","r","e","f","u","g","e">>)) \o Str(<<".","p","n","g">>)

\* the file at path p is the complete file of image img
Holds(p, img) == files[p] = Some(EncodedFile(img))

\* C5 as stated: after two parallel calls have returned, the file at the
\* path each returned holds that call's own image.
C5_EachFileOwnImage ==
    BothReturned => \A c \in Calls : Holds(c_ret[c].val, OwnImage(c))

\* C5 amended: two parallel calls are independent when they write different
\* paths (different output_path arguments, or output_<scene>.png of
\* different scenes when omitted): then, for any interleaving, after both
\* have returned each returned path holds its call's own image.
C5_DistinctPathsOwnImage ==
    BothReturned =>
        /\ \A c \in Calls : c_ret[c] = Some(Target(c))
        /\ Target(1) # Target(2) => \A c \in Calls : Holds(Target(c), OwnImage(c))

\* C5 witness: both calls returned, with different output_path arguments
\* for one scene and different images
C5_Witness ==
    /\ BothReturned
    /\ c_args[1].output_path.some /\ c_args[2].output_path.some
    /\ c_args[1].output_path # c_args[2].output_path
    /\ c_args[1].scene_name = c_args[2].scene_name
    /\ OwnImage(1) # OwnImage(2)
    /\ Holds(c_ret[1].val, OwnImage(1))
    /\ Holds(c_ret[2].val, OwnImage(2))

\* two calls on one path can leave a file that is neither call's image
MixedFileReached ==
    /\ BothReturned
    /\ c_ret[1] = c_ret[2]
    /\ ~Holds(c_ret[1].val, OwnImage(1))
    /\ ~Holds(c_ret[1].val, OwnImage(2))

\* the bound C6 states for the current row, as stated and with each label
\* counted only above the floor
RowBoundAsStated ==
    IF InPair THEN (Len(Orig0) - floor_len) + (Len(Orig1) - floor_len)
    ELSE Len(Orig0) - floor_len

RowBound ==
    IF InPair THEN Max0(Len(Orig0) - floor_len) + Max0(Len(Orig1) - floor_len)
    ELSE Max0(Len(Orig0) - floor_len)

\* C6 as stated, on the rows that were truncated: the number of truncating
\* iterations is at most the sum of (length - 3) over the labels of the row.
C6_BoundAsStated ==
    (InRow /\ iters > 0) => iters <= RowBoundAsStated

FloorKept(orig, d) == Len(d) >= (IF Len(orig) > floor_len THEN floor_len ELSE Len(orig))

\* C6 amended: both truncation loops terminate: an iteration that does not
\* exit shortens exactly one label by exactly one character, a label that
\* started longer than 3 characters never gets shorter than 3 and a label of
\* at most 3 characters is never shortened, so the number of truncating
\* iterations is at most the sum over the labels of the row of
\* max(0, length - 3).
C6_LoopsTerminate ==
    /\ [](InRow =>
            /\ iters <= RowBound
            /\ InPair => /\ FloorKept(Orig0, display_tag0)
                         /\ FloorKept(Orig1, display_tag1)
                         /\ iters = (Len(Orig0) - Len(display_tag0))
                                    + (Len(Orig1) - Len(display_tag1))
            /\ InSingle => /\ FloorKept(Orig0, display_tag)
                           /\ iters = Len(Orig0) - Len(display_tag))
    /\ [][/\ pc = "pair" /\ pc' = "pair" =>
               \/ /\ Len(display_tag0') = Len(display_tag0) - 1
                  /\ display_tag1' = display_tag1
               \/ /\ Len(display_tag1') = Len(display_tag1) - 1
                  /\ display_tag0' = display_tag0
          /\ pc = "single" /\ pc' = "single" =>
               Len(display_tag') = Len(display_tag) - 1]_vars

\* C6 witness: a two-pill row whose loop has used the whole bound although
\* one of its labels is shorter than the floor
C6_Witness ==
    /\ pc = "pair_draw"
    /\ iters > 0
    /\ iters = RowBound
    /\ Len(Orig1) < floor_len

PairFitsNow ==
    PillW(tags_font, display_tag0) + pill_gap_x + PillW(tags_font, display_tag1)
        <= AvailableWidth(width)

\* C7: when the two-pill loop has exited, the pair fits the row budget or
\* both labels are at the floor.
C7_FitsOrBothAtFloor ==
    pc = "pair_draw" =>
        \/ PairFitsNow
        \/ Len(display_tag0) <= floor_len /\ Len(display_tag1) <= floor_len

\* C8: a drawn tag that was shortened is a prefix of the original tag
\* followed by '...'.
C8_ShortenedEndsWithEllipsis ==
    TagsOk(tags) =>
        \A k \in 1..Len(drawn) :
            drawn[k].text # tags.val[k] =>
                \E n \in 0..Len(tags.val[k]) :
                    drawn[k].text = SubSeq(tags.val[k], 1, n) \o Ellipsis

W0 == PillW(tags_font, display_tag0)
W1 == PillW(tags_font, display_tag1)

\* C9: in an over-budget iteration of the two-pill loop the label shortened
\* is the one with the wider pill, the first on a tie, if it is longer than
\* 3 characters; the narrower one is shortened only when the wider one is at
\* the floor; a pair that fits on the first measurement is drawn unchanged.
C9_WiderLabelShortened ==
    [][/\ pc = "pair" =>
            /\ (~PairFitsNow /\ W0 >= W1 /\ Len(display_tag0) > floor_len) =>
                  /\ Len(display_tag0') = Len(display_tag0) - 1
                  /\ IsPrefix(SubSeq(display_tag0', 1, Len(display_tag0') - 3), display_tag0)
                  /\ display_tag1' = display_tag1
            /\ (~PairFitsNow /\ W1 > W0 /\ Len(display_tag1) > floor_len) =>
                  /\ Len(display_tag1') = Len(display_tag1) - 1
                  /\ IsPrefix(SubSeq(display_tag1', 1, Len(display_tag1') - 3), display_tag1)
                  /\ display_tag0' = display_tag0
            /\ display_tag0' # display_tag0 =>
                  ~PairFitsNow /\ (W0 >= W1 \/ Len(display_tag1) <= floor_len)
            /\ display_tag1' # display_tag1 =>
                  ~PairFitsNow /\ (W1 > W0 \/ Len(display_tag0) <= floor_len)
            /\ (PairFitsNow /\ iters = 0) =>
                  /\ pc' = "pair_draw"
                  /\ display_tag0' = Orig0 /\ display_tag1' = Orig1
       /\ (pc = "pair_draw" /\ iters = 0 /\ pc' = "row") =>
            /\ drawn'[Len(drawn') - 1].text = Orig0
            /\ drawn'[Len(drawn')].text = Orig1]_vars

\* C9 witness: a two-pill row on a tie of pill widths whose first label has
\* been shortened once and whose second label is still as given
C9_Witness ==
    /\ pc = "pair"
    /\ iters = 1
    /\ PillW(tags_font, Orig0) = PillW(tags_font, Orig1)
    /\ display_tag0 # Orig0
    /\ display_tag1 = Orig1

RECURSIVE WordsOf(_)
WordsOf(ls) == IF ls = <<>> THEN <<>> ELSE Split(Head(ls)) \o WordsOf(Tail(ls))

\* C10: the wrap neither loses, duplicates nor reorders words: every line is
\* non-empty, the words of the lines in order are the words of the text in
\* order (none for empty or blank text), and a word wider than max_width is
\* alone on its line.
C10_WordsPreserved ==
    /\ w_pc = "loop" =>
          WordsOf(w_lines) \o w_cur = SubSeq(w_words, 1, w_i)
    /\ w_pc = "done" =>
          /\ WordsOf(w_lines) = Split(w_text)
          /\ \A k \in 1..Len(w_lines) :
                /\ w_lines[k] # <<>>
                /\ \A j \in 1..Len(Split(w_lines[k])) :
                      TextWidth(w_font, Split(w_lines[k])[j]) > w_max
                          => Len(Split(w_lines[k])) = 1
          /\ (\A k \in 1..Len(w_text) : IsSpace(w_text[k])) => w_lines = <<>>

\* C10 witness: a finished wrap with a word wider than max_width between
\* two words that fit, in a text holding an em space and an e-acute
C10_Witness ==
    /\ w_pc = "done"
    /\ Len(w_words) = 3
    /\ \E k \in 1..Len(w_text) : w_text[k] = EmSpace
    /\ \E k \in 1..Len(w_text) : w_text[k] = EAcute
    /\ TextWidth(w_font, w_words[1]) <= w_max
    /\ TextWidth(w_font, w_words[2]) > w_max
    /\ TextWidth(w_font, w_words[3]) <= w_max
    /\ Len(w_lines) = 3

====
